---- MODULE Spec2Model ----
(***************************************************************************)
(* A model of src/src/source.js: the Source of a spatial audio scene, its  *)
(* five setters and its three helper functions (toQuaternion,              *)
(* hamiltonProduct, computeDirectivity).                                   *)
(*                                                                         *)
(* Numbers.  The program computes in IEEE doubles.  The model computes in  *)
(* the field Q(sqrt 2), exactly: a number is (a + b*sqrt(2)) / d, kept in  *)
(* lowest terms, together with the three IEEE specials NaN, +Infinity and  *)
(* -Infinity.  Every input the model draws is chosen so that all the       *)
(* square roots, sines, cosines and arc tangents the code takes stay in    *)
(* this field (positions on the axes and diagonals, angles that are        *)
(* multiples of 45 degrees); a value outside it is the number Unrep, which *)
(* no reachable state holds (Representable).                               *)
(*                                                                         *)
(* Rounding.  The model's values are the real numbers that the program's   *)
(* doubles round: the rounding of Float32Array stores, of Math.sin and     *)
(* Math.cos and of the products is not modelled, so where the real value   *)
(* is 0 the program may hold a residue (Math.cos(Math.PI / 2) is 6.1e-17,  *)
(* the forward vector after a quarter turn has a component 2.2e-16).  The  *)
(* two agree up to such residues wherever the code is continuous.  The     *)
(* inputs are drawn so that no residue reaches a point where it is not:    *)
(* Math.pow takes a negative order only with alpha = 1/4, where the base   *)
(* (1 - alpha) + alpha * cosTheta stays above 1/3 (at alpha 1/2 or 1 the   *)
(* base can be a residue, and the program's 1/residue is a finite 1e16     *)
(* where the real 1/0 is Infinity), and no elevation of +-90 degrees is    *)
(* drawn.                                                                  *)
(*                                                                         *)
(* Angles in radians are kept as multiples of pi: the radian value t*pi is *)
(* the number t.  So Globals.PiByOneEighty is 1/180 and                    *)
(* Globals.OneEightyByPi is 180.                                           *)
(*                                                                         *)
(* Collaborators.  The attenuation and encoder objects and the gain node   *)
(* are outside the file; the model keeps the value last passed to          *)
(* setDistance, to setDirection and last stored in _directivity.gain.value.*)
(***************************************************************************)
EXTENDS Integers, Sequences, FiniteSets, TLC

-----------------------------------------------------------------------------
(* Exact arithmetic with the IEEE specials.                                *)
(*                                                                         *)
(* An operator that uses an argument several times binds it first, as the  *)
(* element of a one-element set (The({ e : x \in {arg} })): a bound        *)
(* variable holds a value, computed once, as a JavaScript variable does.   *)

The(S) == CHOOSE x \in S : TRUE

AbsInt(n) == IF n < 0 THEN -n ELSE n

SgnInt(n) == IF n > 0 THEN 1 ELSE IF n < 0 THEN -1 ELSE 0

RECURSIVE Gcd(_, _)
Gcd(m0, n0) ==
    The({ IF n = 0 THEN m ELSE Gcd(n, m % n) : m \in {m0}, n \in {n0} })

NaN == [k |-> "nan", a |-> 0, b |-> 0, d |-> 1]

Infinity == [k |-> "inf", a |-> 0, b |-> 0, d |-> 1]

NegInfinity == [k |-> "ninf", a |-> 0, b |-> 0, d |-> 1]

\* A real number that is not in Q(sqrt 2): outside what the model computes.
Unrep == [k |-> "unrep", a |-> 0, b |-> 0, d |-> 1]

\* (a + b*sqrt(2)) / d in lowest terms, d > 0.
Norm(a0, b0, d0) ==
    The({ IF d = 1 THEN [k |-> "num", a |-> a, b |-> b, d |-> 1]
          ELSE The({ [k |-> "num", a |-> (s * a) \div g,
                      b |-> (s * b) \div g, d |-> (s * d) \div g] :
                     g \in {Gcd(Gcd(AbsInt(a), AbsInt(b)), AbsInt(d))},
                     s \in {IF d < 0 THEN -1 ELSE 1} }) :
          a \in {a0}, b \in {b0}, d \in {d0} })

Num(n) == Norm(n, 0, 1)

Frac(n, d) == Norm(n, 0, d)

IsNum(x) == x.k = "num"

IsNaN(x) == x.k = "nan"

IsInf(x) == x.k \in {"inf", "ninf"}

\* Number.isFinite
IsFinite(x) == x.k = "num"

\* The sign of a number: of a + b*sqrt(2) by comparing a^2 with 2*b^2.
Sgn(x0) ==
    The({ CASE x.k = "inf" -> 1
            [] x.k = "ninf" -> -1
            [] x.k = "num" ->
                  IF x.b = 0 THEN SgnInt(x.a)
                  ELSE IF x.a = 0 THEN SgnInt(x.b)
                  ELSE IF SgnInt(x.a) = SgnInt(x.b) THEN SgnInt(x.a)
                  ELSE IF x.a * x.a > 2 * x.b * x.b THEN SgnInt(x.a)
                  ELSE SgnInt(x.b)
            [] OTHER -> 0 : x \in {x0} })

BySign(s0) ==
    The({ IF s > 0 THEN Infinity ELSE IF s < 0 THEN NegInfinity ELSE NaN :
          s \in {s0} })

\* -x
NNeg(x0) ==
    The({ CASE x.k = "num" -> Norm(-x.a, -x.b, x.d)
            [] x.k = "inf" -> NegInfinity
            [] x.k = "ninf" -> Infinity
            [] OTHER -> x : x \in {x0} })

\* x + y
NAdd(x0, y0) ==
    The({ CASE IsNum(x) /\ IsNum(y) ->
                  Norm(x.a * y.d + y.a * x.d, x.b * y.d + y.b * x.d,
                       x.d * y.d)
            [] x.k = "unrep" \/ y.k = "unrep" -> Unrep
            [] IsNaN(x) \/ IsNaN(y) -> NaN
            [] IsInf(x) /\ IsInf(y) -> IF x = y THEN x ELSE NaN
            [] IsInf(x) -> x
            [] OTHER -> y : x \in {x0}, y \in {y0} })

\* x - y
NSub(x, y) == NAdd(x, NNeg(y))

\* x * y
NMul(x0, y0) ==
    The({ CASE IsNum(x) /\ IsNum(y) ->
                  Norm(x.a * y.a + 2 * x.b * y.b, x.a * y.b + x.b * y.a,
                       x.d * y.d)
            [] x.k = "unrep" \/ y.k = "unrep" -> Unrep
            [] IsNaN(x) \/ IsNaN(y) -> NaN
            [] OTHER -> BySign(Sgn(x) * Sgn(y)) : x \in {x0}, y \in {y0} })

\* 1 / y for a number y # 0: d * (a - b*sqrt(2)) / (a^2 - 2*b^2)
Inverse(y0) ==
    The({ Norm(y.d * y.a, -(y.d * y.b), y.a * y.a - 2 * y.b * y.b) :
          y \in {y0} })

\* x / y, the divisor's zero being +0
NDiv(x0, y0) ==
    The({ CASE IsNum(x) /\ IsNum(y) ->
                  IF Sgn(y) = 0 THEN BySign(Sgn(x)) ELSE NMul(x, Inverse(y))
            [] x.k = "unrep" \/ y.k = "unrep" -> Unrep
            [] IsNaN(x) \/ IsNaN(y) -> NaN
            [] IsInf(x) /\ IsInf(y) -> NaN
            [] IsInf(x) -> BySign(Sgn(x) * (IF Sgn(y) < 0 THEN -1 ELSE 1))
            [] OTHER -> Num(0) : x \in {x0}, y \in {y0} })

\* x < y; false when either is NaN
NLt(x0, y0) ==
    The({ CASE IsNaN(x) \/ IsNaN(y) -> FALSE
            [] IsNum(x) /\ IsNum(y) -> Sgn(NSub(y, x)) > 0
            [] OTHER -> x # y /\ (x.k = "ninf" \/ y.k = "inf") :
          x \in {x0}, y \in {y0} })

\* x <= y; false when either is NaN
NLe(x0, y0) ==
    The({ (x = y /\ ~IsNaN(x)) \/ NLt(x, y) : x \in {x0}, y \in {y0} })

\* Math.min(x, y)
MathMin(x0, y0) ==
    The({ IF IsNaN(x) \/ IsNaN(y) THEN NaN ELSE IF NLt(y, x) THEN y ELSE x :
          x \in {x0}, y \in {y0} })

\* Math.max(x, y)
MathMax(x0, y0) ==
    The({ IF IsNaN(x) \/ IsNaN(y) THEN NaN ELSE IF NLt(x, y) THEN y ELSE x :
          x \in {x0}, y \in {y0} })

\* Math.abs(x)
MathAbs(x0) == The({ IF Sgn(x) < 0 THEN NNeg(x) ELSE x : x \in {x0} })

\* The square root of the natural number m when m is a square (r, 0) or
\* twice a square (0, r); << >> otherwise.
RootOfNat(m0) ==
    The({ The({ IF R # {} THEN << The(R), 0 >>
                ELSE IF T # {} THEN << 0, The(T) >>
                ELSE << >> :
                R \in {{r \in 0..m : r * r = m}},
                T \in {{r \in 0..m : 2 * r * r = m}} }) : m \in {m0} })

\* Math.sqrt(x): of a rational n/d, which is sqrt(n*d)/d, when n*d is a
\* square or twice a square.
MathSqrt(x0) ==
    The({ CASE x.k = "inf" -> Infinity
            [] x.k = "num" /\ Sgn(x) >= 0 /\ x.b = 0 ->
                  The({ IF r = << >> THEN Unrep ELSE Norm(r[1], r[2], x.d) :
                        r \in {RootOfNat(x.a * x.d)} })
            [] x.k = "num" /\ Sgn(x) >= 0 -> Unrep
            [] x.k = "unrep" -> Unrep
            [] OTHER -> NaN : x \in {x0} })

\* x^n for an integer n >= 0, by repeated multiplication (x^0 is 1)
RECURSIVE PowNat(_, _)
PowNat(x0, n0) ==
    The({ IF n = 0 THEN Num(1) ELSE NMul(x, PowNat(x, n - 1)) :
          x \in {x0}, n \in {n0} })

\* Math.pow(x, e) for an integer exponent e: Math.pow(anything, 0) is 1,
\* NaN included, and Math.pow(0, e < 0) is Infinity.
MathPow(x0, e0) ==
    The({ IF ~(IsNum(e) /\ e.b = 0 /\ e.d = 1) THEN Unrep
          ELSE IF e.a = 0 THEN Num(1)
          ELSE IF e.a > 0 THEN PowNat(x, e.a)
          ELSE NDiv(Num(1), PowNat(x, -e.a)) : x \in {x0}, e \in {e0} })

\* sqrt(2)/2
HalfRoot2 == Norm(0, 1, 2)

\* The number of eighths of a turn in the angle t*pi, 0..7, when it is a
\* whole number of them; -1 otherwise.
Eighths(t0) ==
    The({ IF IsNum(t) /\ t.b = 0 /\ (4 * t.a) % t.d = 0
          THEN ((4 * t.a) \div t.d) % 8 ELSE -1 : t \in {t0} })

SinTable == << Num(0), HalfRoot2, Num(1), HalfRoot2,
               Num(0), NNeg(HalfRoot2), Num(-1), NNeg(HalfRoot2) >>

\* Math.sin of the angle t*pi
MathSin(t0) ==
    The({ IF IsNaN(t) \/ IsInf(t) THEN NaN
          ELSE The({ IF n < 0 THEN Unrep ELSE SinTable[n + 1] :
                     n \in {Eighths(t)} }) : t \in {t0} })

\* Math.cos of the angle t*pi
MathCos(t0) ==
    The({ IF IsNaN(t) \/ IsInf(t) THEN NaN
          ELSE The({ IF n < 0 THEN Unrep ELSE SinTable[((n + 2) % 8) + 1] :
                     n \in {Eighths(t)} }) : t \in {t0} })

\* The angle, as a multiple of pi in [0, 1/2], whose tangent is t >= 0:
\* tan(pi/8) = sqrt(2) - 1, tan(pi/4) = 1, tan(3*pi/8) = sqrt(2) + 1.
ArcTanPos(t0) ==
    The({ CASE t = Num(0) -> Num(0)
            [] t = Norm(-1, 1, 1) -> Frac(1, 8)
            [] t = Num(1) -> Frac(1, 4)
            [] t = Norm(1, 1, 1) -> Frac(3, 8)
            [] t = Infinity -> Frac(1, 2)
            [] t = NaN -> NaN
            [] OTHER -> Unrep : t \in {t0} })

\* Math.atan2(y, x) as a multiple of pi, for y that is not the IEEE -0
MathAtan2(y0, x0) ==
    The({ CASE y.k = "unrep" \/ x.k = "unrep" -> Unrep
            [] IsNaN(y) \/ IsNaN(x) -> NaN
            [] Sgn(y) = 0 -> IF Sgn(x) < 0 THEN Num(1) ELSE Num(0)
            [] IsInf(y) /\ IsInf(x) ->
                  NMul(Num(Sgn(y)),
                       IF Sgn(x) > 0 THEN Frac(1, 4) ELSE Frac(3, 4))
            [] OTHER ->
                  The({ IF Sgn(x) >= 0 THEN NMul(Num(Sgn(y)), beta)
                        ELSE NMul(Num(Sgn(y)), NSub(Num(1), beta)) :
                        beta \in {ArcTanPos(NDiv(MathAbs(y), MathAbs(x)))} }) :
          y \in {y0}, x \in {x0} })

\* Math.atan2(-v, x) for a v that is not the IEEE -0: -(+0) is -0, and
\* Math.atan2(-0, x) is -pi for x < 0 and -0 for x >= 0.
MathAtan2Neg(v0, x0) ==
    The({ IF IsNum(v) /\ Sgn(v) = 0 /\ ~IsNaN(x) /\ x.k # "unrep"
          THEN IF Sgn(x) < 0 THEN Num(-1) ELSE Num(0)
          ELSE MathAtan2(NNeg(v), x) : v \in {v0}, x \in {x0} })

-----------------------------------------------------------------------------
(* Globals (globals.js) and the values the file reads from its listener.   *)

\* Globals.EpsilonFloat
EpsilonFloat == Frac(1, 1000000)

\* Globals.PiByOneEighty: one degree, as a multiple of pi
PiByOneEighty == Frac(1, 180)

\* Globals.OneEightyByPi: the degrees in the angle 1*pi
OneEightyByPi == Num(180)

Vec(x, y, z) == << Num(x), Num(y), Num(z) >>

\* Globals.DefaultPosition
DefaultPosition == Vec(0, 0, 0)

\* Globals.DefaultVelocity
DefaultVelocity == Vec(0, 0, 0)

\* Globals.DefaultOrientation
DefaultOrientation == Vec(0, 0, 0)

\* An argument that the caller left out
Undefined == [k |-> "undefined", a |-> 0, b |-> 0, d |-> 1]

-----------------------------------------------------------------------------
(* The helper functions.  The code's arrays start at 0, the model's         *)
(* sequences at 1.                                                         *)

\* Convert roll/pitch/yaw (in radians) to quaternion.
toQuaternion(roll, pitch, yaw) ==
    The({ << NAdd(NMul(NMul(t0, t2), t4), NMul(NMul(t1, t3), t5)),
             NSub(NMul(NMul(t0, t3), t4), NMul(NMul(t1, t2), t5)),
             NAdd(NMul(NMul(t0, t2), t5), NMul(NMul(t1, t3), t4)),
             NSub(NMul(NMul(t1, t2), t4), NMul(NMul(t0, t3), t5)) >> :
          t0 \in {MathCos(NMul(yaw, Frac(1, 2)))},
          t1 \in {MathSin(NMul(yaw, Frac(1, 2)))},
          t2 \in {MathCos(NMul(roll, Frac(1, 2)))},
          t3 \in {MathSin(NMul(roll, Frac(1, 2)))},
          t4 \in {MathCos(NMul(pitch, Frac(1, 2)))},
          t5 \in {MathSin(NMul(pitch, Frac(1, 2)))} })

\* hamiltonProduct with a sign slip in its second component
hamiltonProductSlip(a, b) ==
    The({ << NSub(NSub(NSub(NMul(q1[1], q2[1]), NMul(q1[2], q2[2])),
                       NMul(q1[3], q2[3])), NMul(q1[4], q2[4])),
             NAdd(NAdd(NAdd(NMul(q1[1], q2[2]), NMul(q1[2], q2[1])),
                       NMul(q1[3], q2[4])), NMul(q1[4], q2[3])),
             NAdd(NAdd(NSub(NMul(q1[1], q2[3]), NMul(q1[2], q2[4])),
                       NMul(q1[3], q2[1])), NMul(q1[4], q2[2])),
             NAdd(NSub(NAdd(NMul(q1[1], q2[4]), NMul(q1[2], q2[3])),
                       NMul(q1[3], q2[2])), NMul(q1[4], q2[1])) >> :
          q1 \in {a}, q2 \in {b} })

\* Compute Hamilton product of two quaternions.
hamiltonProduct(a, b) ==
    The({ << NSub(NSub(NSub(NMul(q1[1], q2[1]), NMul(q1[2], q2[2])),
                       NMul(q1[3], q2[3])), NMul(q1[4], q2[4])),
             NSub(NAdd(NAdd(NMul(q1[1], q2[2]), NMul(q1[2], q2[1])),
                       NMul(q1[3], q2[4])), NMul(q1[4], q2[3])),
             NAdd(NAdd(NSub(NMul(q1[1], q2[3]), NMul(q1[2], q2[4])),
                       NMul(q1[3], q2[1])), NMul(q1[4], q2[2])),
             NAdd(NSub(NAdd(NMul(q1[1], q2[4]), NMul(q1[2], q2[3])),
                       NMul(q1[3], q2[2])), NMul(q1[4], q2[1])) >> :
          q1 \in {a}, q2 \in {b} })

computeDirectivity(fwd, direction_to_listener, alpha0, order0) ==
    The({ IF NLt(alpha, EpsilonFloat) THEN Num(1)
          ELSE The({ MathPow(MathAbs(gain), order) :
                     gain \in {NAdd(NSub(Num(1), alpha),
                                    NMul(alpha, cosTheta))} }) :
          alpha \in {alpha0}, order \in {order0},
          cosTheta \in {NAdd(NAdd(NMul(fwd[1], direction_to_listener[1]),
                                  NMul(fwd[2], direction_to_listener[2])),
                             NMul(fwd[3], direction_to_listener[3]))} })

-----------------------------------------------------------------------------
(* Bounds and inputs.                                                      *)

\* Orientation angles are drawn from 0..MaxQuarterTurns quarter turns
\* (multiples of pi/2).
MaxQuarterTurns == 1

\* listener._ambisonicOrder is drawn from 1..MaxAmbisonicOrder.
MaxAmbisonicOrder == 1

\* The order passed to setDirectivity is drawn from 0..MaxOrderArg, and
\* -1 with the alphas of DirectivityInputs.
MaxOrderArg == 1

ListenerPositions == { Vec(0, 0, 0), Vec(0, 0, 5) }

\* The arguments of setPosition; Next also calls it with the Source's
\* current position and with the listener's
PositionInputs == { Vec(0, 0, 5), Vec(5, 0, 0) }

\* options.position of the constructor; DefaultPosition when it is left out
InitPositions == { DefaultPosition, Vec(0, 0, 5) }

\* options.orientation of the constructor; DefaultOrientation when it is
\* left out
InitOrientations == { DefaultOrientation, << Frac(1, 2), Num(0), Num(0) >> }

VelocityInputs == { Vec(0, -2, 3) }

\* (azimuth, elevation, distance) in degrees and meters
AngleInputs ==
    { << Num(0), Undefined, Undefined >>,
      << Num(90), Num(0), Num(2) >>,
      << Num(45), Num(45), Num(2) >> }

\* Angles in radians, as multiples of pi
OrientationAngles == { Frac(n, 2) : n \in 0..MaxQuarterTurns }

AlphaInputs == { Frac(1, 2), Num(2) }

OrderInputs == { Num(n) : n \in 0..MaxOrderArg }

\* (alpha, order) of setDirectivity: a negative order with an alpha below
\* 0 and with alpha 1/4 only
DirectivityInputs ==
    (AlphaInputs \X OrderInputs)
        \cup { << Num(-1), Num(-1) >>, << Frac(1, 4), Num(-1) >> }

-----------------------------------------------------------------------------
(* The Source.                                                             *)

VARIABLES
    listener_position,     \* this._listener._position
    position,              \* this._position
    velocity,              \* this._velocity
    orientation_q,         \* this._orientation_q
    forward,               \* this._forward
    directivity_alpha,     \* this._directivity_alpha
    directivity_order,     \* this._directivity_order
    directivity_gain,      \* this._directivity.gain.value
    attenuation_distance,  \* the argument of the last _attenuation.setDistance
    encoder_direction,     \* the arguments of the last _encoder.setDirection
    lastOp,                \* the function called last
    lastArgs               \* and its arguments

vars == << listener_position, position, velocity, orientation_q, forward,
           directivity_alpha, directivity_order, directivity_gain,
           attenuation_distance, encoder_direction, lastOp, lastArgs >>

\* What setPosition(p) computes for a listener at lp and a Source whose
\* forward vector and directivity are fwd, alpha and order: the differences
\* d, their norm, the normalized dx, the gain and the two angles.
positionUpdate(p, lp, fwd, alpha, order) ==
    The({ The({ The({ [ gain |-> computeDirectivity(fwd, dx, alpha, order),
                        distance |-> distance,
                        direction |->
                            << NMul(MathAtan2Neg(dx[1], dx[3]),
                                    OneEightyByPi),
                               NMul(MathAtan2(dx[2],
                                        MathSqrt(NAdd(NMul(dx[1], dx[1]),
                                                      NMul(dx[3], dx[3])))),
                                    OneEightyByPi) >> ] :
                      dx \in {<< NDiv(d[1], distance), NDiv(d[2], distance),
                                 NDiv(d[3], distance) >>} }) :
                distance \in {MathSqrt(NAdd(NAdd(NMul(d[1], d[1]),
                                                 NMul(d[2], d[2])),
                                            NMul(d[3], d[3])))} }) :
          d \in {<< NSub(p[1], lp[1]), NSub(p[2], lp[2]),
                    NSub(p[3], lp[3]) >>} })

\* What setOrientation computes: the quaternion and the forward vector.
orientationUpdate(roll, pitch, yaw) ==
    The({ The({ [ q |-> q, forward |-> << f[2], f[3], f[4] >> ] :
                f \in {hamiltonProduct(
                           hamiltonProduct(q, << Num(0), Num(0), Num(0),
                                                 Num(1) >>),
                           << q[1], NNeg(q[2]), NNeg(q[3]), NNeg(q[4]) >>)} }) :
          q \in {toQuaternion(roll, pitch, yaw)} })

\* orientationUpdate depends on the arguments alone: its values on the
\* arguments the model draws, computed once.
orientationResults ==
    { [ args |-> t, result |-> orientationUpdate(t[1], t[2], t[3]) ] :
        t \in OrientationAngles \X OrientationAngles \X OrientationAngles }

\* new Source(listener, options): the fields, then setPosition, setVelocity
\* and setOrientation with the options (the defaults for those left out).
\* setPosition runs while _forward is still the zero Float32Array.
Init ==
    \E lp \in ListenerPositions, ao \in 1..MaxAmbisonicOrder,
       p \in InitPositions, e \in orientationResults :
        \E r \in {positionUpdate(p, lp, Vec(0, 0, 0), Num(0), Num(ao))} :
            /\ e.args \in InitOrientations
            /\ listener_position = lp
            /\ position = p
            /\ velocity = Vec(0, 0, 0)
            /\ orientation_q = e.result.q
            /\ forward = e.result.forward
            /\ directivity_alpha = Num(0)
            /\ directivity_order = Num(ao)
            /\ directivity_gain = r.gain
            /\ attenuation_distance = r.distance
            /\ encoder_direction = r.direction
            /\ lastOp = "Source"
            /\ lastArgs = << >>

setPosition(x, y, z) ==
    \E r \in {positionUpdate(<< x, y, z >>, listener_position, forward,
                             directivity_alpha, directivity_order)} :
        /\ position' = << x, y, z >>
        /\ directivity_gain' = r.gain
        /\ attenuation_distance' = r.distance
        /\ encoder_direction' = r.direction
        /\ lastOp' = "setPosition"
        /\ lastArgs' = << x, y, z >>
        /\ UNCHANGED << listener_position, velocity, orientation_q, forward,
                        directivity_alpha, directivity_order >>

setAngleFromListener(azimuth, elevation, distance) ==
    \E elevation1 \in {IF elevation = Undefined THEN Num(0) ELSE elevation},
       distance1 \in {IF distance = Undefined THEN Num(1) ELSE distance} :
    \E theta \in {NMul(azimuth, PiByOneEighty)},
       phi \in {NMul(elevation1, PiByOneEighty)} :
    \E x \in {NMul(NNeg(MathSin(theta)), MathCos(phi))},
       y \in {MathSin(theta)},
       z \in {NMul(NNeg(MathCos(theta)), MathCos(phi))} :
        /\ directivity_gain' =
               computeDirectivity(forward, << x, y, z >>, directivity_alpha,
                                  directivity_order)
        /\ position' = << NAdd(listener_position[1], x),
                          NAdd(listener_position[2], y),
                          NAdd(listener_position[3], z) >>
        /\ attenuation_distance' = distance1
        /\ encoder_direction' = << NNeg(azimuth), elevation1 >>
        /\ lastOp' = "setAngleFromListener"
        /\ lastArgs' = << azimuth, elevation, distance >>
        /\ UNCHANGED << listener_position, velocity, orientation_q, forward,
                        directivity_alpha, directivity_order >>

setOrientation(roll, pitch, yaw) ==
    \E e \in orientationResults :
        /\ e.args = << roll, pitch, yaw >>
        /\ orientation_q' = e.result.q
        /\ forward' = e.result.forward
        /\ lastOp' = "setOrientation"
        /\ lastArgs' = << roll, pitch, yaw >>
        /\ UNCHANGED << listener_position, position, velocity,
                        directivity_alpha, directivity_order,
                        directivity_gain, attenuation_distance,
                        encoder_direction >>

\* The body is a TODO comment: nothing is stored.
setVelocity(x, y, z) ==
    /\ lastOp' = "setVelocity"
    /\ lastArgs' = << x, y, z >>
    /\ UNCHANGED << listener_position, position, velocity, orientation_q,
                    forward, directivity_alpha, directivity_order,
                    directivity_gain, attenuation_distance,
                    encoder_direction >>

setDirectivity(alpha, order) ==
    /\ directivity_alpha' = MathMin(Num(1), MathMax(Num(0), alpha))
    /\ directivity_order' = MathMin(Num(1), order)
    /\ lastOp' = "setDirectivity"
    /\ lastArgs' = << alpha, order >>
    /\ UNCHANGED << listener_position, position, velocity, orientation_q,
                    forward, directivity_gain, attenuation_distance,
                    encoder_direction >>

Next ==
    \/ setPosition(listener_position[1], listener_position[2],
                   listener_position[3])
    \/ setPosition(position[1], position[2], position[3])
    \/ \E p \in PositionInputs : setPosition(p[1], p[2], p[3])
    \/ \E t \in AngleInputs : setAngleFromListener(t[1], t[2], t[3])
    \/ \E r, p, y \in OrientationAngles : setOrientation(r, p, y)
    \/ \E v \in VelocityInputs : setVelocity(v[1], v[2], v[3])
    \/ \E d \in DirectivityInputs : setDirectivity(d[1], d[2])

Spec == Init /\ [][Next]_vars

\* Every number a reachable state holds is one the model computes exactly.
Representable ==
    \A x \in { position[1], position[2], position[3],
               forward[1], forward[2], forward[3],
               orientation_q[1], orientation_q[2], orientation_q[3],
               orientation_q[4], directivity_alpha, directivity_order,
               directivity_gain, attenuation_distance,
               encoder_direction[1], encoder_direction[2] } :
        x.k \in {"num", "nan", "inf", "ninf"}

-----------------------------------------------------------------------------
(* Properties.                                                             *)

\* C1: after any sequence of setPosition, setAngleFromListener,
\* setOrientation and setDirectivity calls, the directivity gain applied
\* equals computeDirectivity on the current forward vector, the current
\* direction between Source and listener (the normalized difference that
\* setPosition forms) and the current alpha and order.  Stated for a Source
\* away from the listener, where that direction is defined.
C1_GainIsCurrent ==
    LET d == << NSub(position[1], listener_position[1]),
                NSub(position[2], listener_position[2]),
                NSub(position[3], listener_position[3]) >>
        distance == MathSqrt(NAdd(NAdd(NMul(d[1], d[1]), NMul(d[2], d[2])),
                                  NMul(d[3], d[3])))
        dx == << NDiv(d[1], distance), NDiv(d[2], distance),
                 NDiv(d[3], distance) >>
    IN  position # listener_position =>
            directivity_gain =
                computeDirectivity(forward, dx, directivity_alpha,
                                   directivity_order)

\* C2: after setPosition or setAngleFromListener the value last passed to
\* setDistance is >= 0 and is the Euclidean distance between the stored
\* position and the listener's position (compared by their squares).
C2_DistanceIsEuclidean ==
    lastOp \in {"setPosition", "setAngleFromListener"} =>
        LET d == << NSub(position[1], listener_position[1]),
                    NSub(position[2], listener_position[2]),
                    NSub(position[3], listener_position[3]) >>
        IN  /\ NLe(Num(0), attenuation_distance)
            /\ NMul(attenuation_distance, attenuation_distance) =
                   NAdd(NAdd(NMul(d[1], d[1]), NMul(d[2], d[2])),
                        NMul(d[3], d[3]))

\* C3: setAngleFromListener(a, e, d) leaves the position at
\* listener + d * (-sin(a)cos(e), sin(e), -cos(a)cos(e)), with e defaulting
\* to 0 and d to 1.
C3_AngleSetsPosition ==
    lastOp = "setAngleFromListener" =>
        LET e == IF lastArgs[2] = Undefined THEN Num(0) ELSE lastArgs[2]
            d == IF lastArgs[3] = Undefined THEN Num(1) ELSE lastArgs[3]
            theta == NMul(lastArgs[1], PiByOneEighty)
            phi == NMul(e, PiByOneEighty)
        IN  position =
                << NAdd(listener_position[1],
                        NMul(d, NMul(NNeg(MathSin(theta)), MathCos(phi)))),
                   NAdd(listener_position[2], NMul(d, MathSin(phi))),
                   NAdd(listener_position[3],
                        NMul(d, NMul(NNeg(MathCos(theta)), MathCos(phi)))) >>

\* C4: a setPosition call with the position that the preceding
\* setAngleFromListener stored (elevation not at a pole) pushes to the
\* encoder the direction setAngleFromListener pushed: the same elevation
\* and the same azimuth up to whole turns.
C4_EntryPointsAgree ==
    [][ ( /\ lastOp = "setAngleFromListener"
          /\ encoder_direction[2] \notin {Num(90), Num(-90)}
          /\ lastOp' = "setPosition"
          /\ lastArgs' = position )
        => /\ encoder_direction'[2] = encoder_direction[2]
           /\ NSub(encoder_direction'[1], encoder_direction[1])
                  \in {Num(-360), Num(0), Num(360)} ]_vars

\* C5: directivityOrder >= 1 in every reachable state, and setDirectivity
\* stores max(1, order): an order >= 1 unchanged, a lower one raised to 1.
C5_OrderAtLeastOne ==
    /\ NLe(Num(1), directivity_order)
    /\ lastOp = "setDirectivity" =>
           directivity_order = MathMax(Num(1), lastArgs[2])

\* C6: setPosition with the listener's position pushes a positive distance
\* and finite angles, and stores a finite gain.
C6_ZeroDistanceIsGuarded ==
    lastOp = "setPosition" /\ position = listener_position =>
        /\ IsFinite(attenuation_distance)
        /\ NLt(Num(0), attenuation_distance)
        /\ IsFinite(encoder_direction[1])
        /\ IsFinite(encoder_direction[2])
        /\ IsFinite(directivity_gain)

\* C7: after setVelocity(x, y, z) the stored velocity is (x, y, z).
C7_VelocityStored ==
    lastOp = "setVelocity" => velocity = lastArgs

\* C8: setPosition(P), P not the listener's position, pushes the distance
\* from P to the listener and the azimuth atan2(-dx, dz) and elevation
\* atan2(dy, sqrt(dx^2 + dz^2)), in degrees, of the unit vector pointing
\* from the source to the listener (azimuth up to whole turns).
C8_DirectionIsSourceToListener ==
    lastOp = "setPosition" /\ position # listener_position =>
        LET d == << NSub(listener_position[1], position[1]),
                    NSub(listener_position[2], position[2]),
                    NSub(listener_position[3], position[3]) >>
            distance == MathSqrt(NAdd(NAdd(NMul(d[1], d[1]),
                                           NMul(d[2], d[2])),
                                      NMul(d[3], d[3])))
            dx == << NDiv(d[1], distance), NDiv(d[2], distance),
                     NDiv(d[3], distance) >>
            azimuth == NMul(MathAtan2Neg(dx[1], dx[3]), OneEightyByPi)
            elevation ==
                NMul(MathAtan2(dx[2], MathSqrt(NAdd(NMul(dx[1], dx[1]),
                                                    NMul(dx[3], dx[3])))),
                     OneEightyByPi)
        IN  /\ attenuation_distance = distance
            /\ encoder_direction[2] = elevation
            /\ NSub(encoder_direction[1], azimuth)
                   \in {Num(-360), Num(0), Num(360)}

\* C9: while the Source is not at the listener's position the directivity
\* gain lies in [0, 1].
C9_GainInUnitInterval ==
    position # listener_position =>
        /\ NLe(Num(0), directivity_gain)
        /\ NLe(directivity_gain, Num(1))

\* C10: forward is always the axis (0, 0, 1) rotated by orientation_q, in
\* the closed form of q * v * conjugate(q); setOrientation(0, 0, 0) leaves
\* it at (0, 0, 1); and no function but setOrientation changes
\* orientation_q or forward.
C10_ForwardFollowsOrientation ==
    /\ [](LET w == orientation_q[1]
              x == orientation_q[2]
              y == orientation_q[3]
              z == orientation_q[4]
          IN  /\ forward =
                     << NMul(Num(2), NAdd(NMul(x, z), NMul(w, y))),
                        NMul(Num(2), NSub(NMul(y, z), NMul(w, x))),
                        NAdd(NSub(NSub(NMul(w, w), NMul(x, x)),
                                  NMul(y, y)), NMul(z, z)) >>
              /\ IsNum(forward[1]) /\ IsNum(forward[2]) /\ IsNum(forward[3])
              /\ lastOp = "setOrientation"
                 /\ lastArgs = << Num(0), Num(0), Num(0) >>
                     => forward = << Num(0), Num(0), Num(1) >>)
    /\ [][lastOp' # "setOrientation" =>
              UNCHANGED << orientation_q, forward >>]_vars

\* C10: setOrientation has turned the forward vector away from (0, 0, 1),
\* and another function has run since.
C10_Turned ==
    /\ lastOp \in {"setPosition", "setAngleFromListener", "setDirectivity",
                   "setVelocity"}
    /\ forward # << Num(0), Num(0), Num(1) >>

====
